---- MODULE Spec2Model ----
(***************************************************************************)
(* A model of src/index.ts: the process shell (main, the stdin handlers,    *)
(* runChat) translated from the source, and the orchestration loop behind  *)
(* run(...) - which the source only imports and calls - modelled from      *)
(* spec.md sections 4.2, 4.4 and 5.                                        *)
(*                                                                         *)
(* One action is the code between two suspension points (await) of one     *)
(* control flow, so the interleavings of the model are the interleavings   *)
(* the event loop can produce.                                             *)
(***************************************************************************)
EXTENDS Integers, Sequences, FiniteSets, TLC

(***************************************************************************)
(* Bounds of the model.                                                    *)
(***************************************************************************)
\* run invocations made in one execution of the process
MaxRuns == 2
\* the turn budget of one run invocation (model calls per run)
MaxTurns == 2

(***************************************************************************)
(* The constructed objects.                                                *)
(***************************************************************************)
mcpHttpServer == "GitMCP Documentation Server"
mcpFilesystemServer == "Filesystem MCP Server, via npx"
Servers == {mcpHttpServer, mcpFilesystemServer}

userAgeAgent == "User Age Assistant"
weatherAgent == "Weather bot"
historyTutorAgent == "History Tutor"
mathTutorAgent == "Math Tutor"
fileSystemAgent == "FS MCP Assistant"
triageAgent == "Triage Agent"
Agents == {userAgeAgent, weatherAgent, historyTutorAgent, mathTutorAgent,
           fileSystemAgent, triageAgent}

userInfo == [name |-> "John", uid |-> 123]

\* the two places runChat is called from: the TTY branch of main and the
\* stdin 'end' handler
Sessions == {"tty", "end"}

NULL == "<null>"
NoArg == "<none>"

\* An agent's handoffs list (absent for every agent but Triage Agent).
handoffsBack(agent) ==
  IF agent = triageAgent
    THEN {fileSystemAgent, historyTutorAgent, mathTutorAgent, userAgeAgent,
          weatherAgent}
    ELSE {triageAgent}

handoffsSelf(agent) ==
  IF agent = triageAgent
    THEN {fileSystemAgent, historyTutorAgent, mathTutorAgent, userAgeAgent,
          weatherAgent, triageAgent}
    ELSE {}

handoffs(agent) ==
  IF agent = triageAgent
    THEN {fileSystemAgent, historyTutorAgent, mathTutorAgent, userAgeAgent,
          weatherAgent}
    ELSE {}

\* An agent's local tools.
tools(agent) ==
  CASE agent = userAgeAgent -> {"fetch_user_age"}
    [] agent = weatherAgent -> {"get_weather"}
    [] agent = historyTutorAgent -> {"history_fun_fact"}
    [] OTHER -> {}

\* An agent's attached capability servers.
mcpServers(agent) ==
  CASE agent = weatherAgent -> {mcpHttpServer}
    [] agent = fileSystemAgent -> {mcpFilesystemServer}
    [] OTHER -> {}

\* getWeather.needsApproval
needsApprovalNever(name, city) == FALSE

needsApprovalAnyCity(name, city) == name = "get_weather"

needsApproval(name, city) == name = "get_weather" /\ city = "San Francisco"

\* The execute function of each local tool.
execute(name, city) ==
  CASE name = "fetch_user_age" -> <<"User ", userInfo.name, " is 47 years old">>
    [] name = "history_fun_fact" -> <<"Sharks are older than trees.">>
    [] name = "get_weather" -> <<"The weather in ", city, " is sunny.">>
    [] OTHER -> <<>>

(***************************************************************************)
(* History items. Every item has the same four fields so that items of     *)
(* different variants compare.                                             *)
(***************************************************************************)
Item(type, name, arg, id) == [type |-> type, name |-> name, arg |-> arg, id |-> id]
\* user(text)
user(text) == Item("UserMessage", "user", text, 0)
AssistantMessage(agent, text) == Item("AssistantMessage", agent, text, 0)
ToolCall(c) == Item("ToolCall", c.name, c.city, c.id)
ToolResult(c) == Item("ToolResult", c.kind, c.output, c.id)
HandoffEvent(from, to) == Item("HandoffEvent", from, to, 0)
InvalidHandoff(from, to) == Item("ToolResult", "InvalidHandoff", <<to>>, 0)

(***************************************************************************)
(* What the environment may supply.                                        *)
(***************************************************************************)
\* answers to "What can I do for you?"; "" is an empty answer
Prompts == {"", "hi"}
\* lines typed at runChat's prompt
UserLines == {"more", "/bye"}
\* what arrives on stdin before it ends
StdinData == {"", "hi"}
\* texts of a plain-text model response
Texts == {"", "Sunny"}
\* tool calls the model backend may request
ToolReqs == {[name |-> "get_weather", city |-> "San Francisco"],
             [name |-> "get_weather", city |-> "Paris"]}
\* handoff targets the model backend may name
Targets == {weatherAgent, triageAgent, "Nobody"}
\* the tool-call requests of one model response: one call, or two
\* different ones
ReqSeqs == {<<r>> : r \in ToolReqs} \cup
           {qr \in ToolReqs \X ToolReqs : qr[1] # qr[2]}

VARIABLES
  \* ---- the process (main and the stdin handlers)
  isTTY,        \* process.stdin.isTTY
  mainPc,       \* where main is suspended
  thrown,       \* an exception is passing through main's finally block
  conn,         \* each server's connectionState
  connectResult, \* how each server's connect() ended: "none", "ok", "failed"
  closeCalls,   \* close() calls made on each server
  handlers,     \* the stdin 'data' and 'end' handlers are registered
  stdinInput,   \* main's stdinInput
  stdinEnded,   \* stdin has emitted 'end'
  rlOpen,       \* the readline interface rl is open
  stdout,       \* what runChat wrote to process.stdout
  exit,         \* "running", "exit0" (process.exit(0)), "crash" or "ended"
  logged,       \* main().catch has logged an error
  \* ---- runChat, per session
  pc,           \* where the session's runChat is suspended
  history,      \* runChat's history
  userPrompt,   \* runChat's userPrompt
  runs,         \* run invocations made by this session
  \* ---- the Runner behind run(...), per session
  rstate,       \* the Runner's state
  active,       \* the active agent
  turns,        \* model calls issued in this run invocation
  outstanding,  \* model calls issued and not yet answered
  rhist,        \* the history the run accumulates
  calls,        \* the tool calls of the current turn, in issue order
  completed,    \* callIds of the current turn in completion order
  nextId,       \* the next callId
  resp,         \* the model response being acted on
  result,       \* the RunResult of the last finished run invocation
  executed,     \* every tool call whose execute ran
  approvals     \* callIds with an approval decision recorded in the run

procVars == <<isTTY, mainPc, thrown, conn, connectResult, closeCalls, handlers, stdinInput,
              stdinEnded, rlOpen, stdout, exit, logged>>
chatVars == <<pc, history, userPrompt, runs>>
runVars == <<rstate, active, turns, outstanding, rhist, calls, completed,
             nextId, resp, result, executed, approvals>>
vars == <<procVars, chatVars, runVars>>

NoResp == [type |-> "none", text |-> NULL, target |-> NULL, from |-> NULL]
NoResult == [finalOutput |-> NULL, history |-> <<>>, error |-> NULL]

Init ==
  /\ isTTY \in BOOLEAN
  \* main() runs synchronously up to `await mcpHttpServer.connect()`
  /\ mainPc = "connectHttp"
  /\ thrown = FALSE
  /\ conn = [s \in Servers |-> IF s = mcpHttpServer THEN "Connecting" ELSE "Disconnected"]
  /\ connectResult = [s \in Servers |-> "none"]
  /\ closeCalls = [s \in Servers |-> 0]
  /\ handlers = FALSE
  /\ stdinInput = ""
  /\ stdinEnded = FALSE
  /\ rlOpen = TRUE
  /\ stdout = <<>>
  /\ exit = "running"
  /\ logged = FALSE
  /\ pc = [s \in Sessions |-> "none"]
  /\ history = [s \in Sessions |-> <<>>]
  /\ userPrompt = [s \in Sessions |-> ""]
  /\ runs = [s \in Sessions |-> 0]
  /\ rstate = [s \in Sessions |-> "Idle"]
  /\ active = [s \in Sessions |-> triageAgent]
  /\ turns = [s \in Sessions |-> 0]
  /\ outstanding = [s \in Sessions |-> 0]
  /\ rhist = [s \in Sessions |-> <<>>]
  /\ calls = [s \in Sessions |-> <<>>]
  /\ completed = [s \in Sessions |-> <<>>]
  /\ nextId = [s \in Sessions |-> 1]
  /\ resp = [s \in Sessions |-> NoResp]
  /\ result = [s \in Sessions |-> NoResult]
  /\ executed = [s \in Sessions |-> {}]
  /\ approvals = [s \in Sessions |-> {}]


(***************************************************************************)
(* The Runner behind run(triageAgent, history, ...).                       *)
(***************************************************************************)
\* The tool names an agent's model call may resolve: its local tools and,
\* for each attached server that is connected, that server's catalogue
\* (one remote tool per server, named after the server).
Catalogue(agent) ==
  tools(agent) \cup {srv \in mcpServers(agent) : conn[srv] = "Connected"}

\* The turn's fan-in barrier: every tool call of the turn has been
\* dispatched to completion or is suspended in PendingApproval.
BarrierAny(cs) == \E i \in 1..Len(cs) : cs[i].status # "issued"

Barrier(cs) == \A i \in 1..Len(cs) : cs[i].status # "issued"

\* The ToolCall/ToolResult pairs of the turn's completed calls, in the
\* order in which the model issued the calls.
RECURSIVE Pairs(_)
Pairs(cs) ==
  IF cs = <<>> THEN <<>>
  ELSE (IF Head(cs).status = "done"
          THEN <<ToolCall(Head(cs)), ToolResult(Head(cs))>>
          ELSE <<>>) \o Pairs(Tail(cs))

\* What the fan-in appends to the history.
FoldTurn(h, cs) == h \o Pairs(cs)

\* The turn budget.
HasBudgetAlways(n) == TRUE

HasBudget(n) == n < MaxTurns

\* Return to AwaitingModel: issue the next model call, or fail with
\* MaxTurnsExceeded and the partial history when the budget is used up.
\* `out` is the number of model calls still outstanding.
NextTurn(s, out) ==
  IF HasBudget(turns[s])
    THEN /\ turns' = [turns EXCEPT ![s] = @ + 1]
         /\ outstanding' = [outstanding EXCEPT ![s] = out + 1]
         /\ rstate' = [rstate EXCEPT ![s] = "AwaitingModel"]
         /\ result' = result
    ELSE /\ turns' = turns
         /\ outstanding' = [outstanding EXCEPT ![s] = out]
         /\ rstate' = [rstate EXCEPT ![s] = "Failed"]
         /\ result' = [result EXCEPT ![s] =
              [finalOutput |-> NULL, history |-> rhist'[s],
               error |-> "MaxTurnsExceeded"]]

\* The starting agent runChat passes to run(...), whichever agent was
\* active when the run before ended.
startingAgentLast(last) == last

startingAgent(last) == triageAgent

\* run(triageAgent, input, {stream: false, context: userInfo}) is called:
\* the run starts with the given agent and history and issues its first
\* model call.
StartRun(s, input) ==
  /\ runs["tty"] + runs["end"] < MaxRuns
  /\ runs' = [runs EXCEPT ![s] = @ + 1]
  /\ active' = [active EXCEPT ![s] = startingAgent(@)]
  /\ rhist' = [rhist EXCEPT ![s] = input]
  /\ calls' = [calls EXCEPT ![s] = <<>>]
  /\ completed' = [completed EXCEPT ![s] = <<>>]
  /\ resp' = [resp EXCEPT ![s] = NoResp]
  /\ turns' = [turns EXCEPT ![s] = 1]
  /\ outstanding' = [outstanding EXCEPT ![s] = @ + 1]
  /\ rstate' = [rstate EXCEPT ![s] = "AwaitingModel"]
  /\ result' = [result EXCEPT ![s] = NoResult]
  /\ UNCHANGED <<nextId, executed, approvals>>

Running == exit = "running"

\* InterpretingResponse, plain text: Terminal, the text is the finalOutput.
ModelMessage(s, text) ==
  /\ Running /\ rstate[s] = "AwaitingModel"
  /\ resp' = [resp EXCEPT ![s] =
       [type |-> "message", text |-> text, target |-> NULL, from |-> active[s]]]
  /\ outstanding' = [outstanding EXCEPT ![s] = @ - 1]
  /\ rhist' = [rhist EXCEPT ![s] = Append(@, AssistantMessage(active[s], text))]
  /\ rstate' = [rstate EXCEPT ![s] = "Terminal"]
  /\ result' = [result EXCEPT ![s] =
       [finalOutput |-> text, history |-> rhist'[s], error |-> NULL]]
  /\ calls' = [calls EXCEPT ![s] = <<>>]
  /\ completed' = [completed EXCEPT ![s] = <<>>]
  /\ UNCHANGED <<active, turns, nextId, executed, approvals>>
  /\ UNCHANGED <<procVars, chatVars>>

\* InterpretingResponse, one or more tool-call requests: ExecutingTools.
ModelToolCalls(s, reqs) ==
  /\ Running /\ rstate[s] = "AwaitingModel"
  /\ resp' = [resp EXCEPT ![s] =
       [type |-> "tool_calls", text |-> NULL, target |-> NULL, from |-> active[s]]]
  /\ outstanding' = [outstanding EXCEPT ![s] = @ - 1]
  /\ calls' = [calls EXCEPT ![s] =
       [i \in 1..Len(reqs) |->
          [id |-> nextId[s] + i - 1, name |-> reqs[i].name, city |-> reqs[i].city,
           status |-> "issued", kind |-> NULL, output |-> <<>>]]]
  /\ completed' = [completed EXCEPT ![s] = <<>>]
  /\ nextId' = [nextId EXCEPT ![s] = @ + Len(reqs)]
  /\ rstate' = [rstate EXCEPT ![s] = "ExecutingTools"]
  /\ UNCHANGED <<active, turns, rhist, result, executed, approvals>>
  /\ UNCHANGED <<procVars, chatVars>>

\* The Invoker dispatches one tool call of the turn; the calls of a turn
\* are dispatched in any order.
ToolExec(s, i) ==
  /\ Running /\ i \in 1..Len(calls[s])
  /\ calls[s][i].status = "issued"
  /\ LET c == calls[s][i] IN
       IF c.name \notin Catalogue(active[s])
         THEN \* UnknownTool: reported as a ToolResult with an error payload
              /\ calls' = [calls EXCEPT ![s][i] =
                   [@ EXCEPT !.status = "done", !.kind = "UnknownTool",
                             !.output = <<c.name>>]]
              /\ completed' = [completed EXCEPT ![s] = Append(@, c.id)]
              /\ executed' = executed
         ELSE IF needsApproval(c.name, c.city) /\ c.id \notin approvals[s]
           THEN \* PendingApproval: this call is suspended
                /\ calls' = [calls EXCEPT ![s][i] = [@ EXCEPT !.status = "pending"]]
                /\ completed' = completed
                /\ executed' = executed
           ELSE /\ calls' = [calls EXCEPT ![s][i] =
                     [@ EXCEPT !.status = "done", !.kind = "output",
                               !.output = execute(c.name, c.city)]]
                /\ completed' = [completed EXCEPT ![s] = Append(@, c.id)]
                /\ executed' = [executed EXCEPT ![s] =
                     @ \cup {[id |-> c.id, name |-> c.name, city |-> c.city]}]
  /\ UNCHANGED <<rstate, active, turns, outstanding, rhist, nextId, resp,
                 result, approvals>>
  /\ UNCHANGED <<procVars, chatVars>>

\* The fan-in of a turn: the results are folded into the history; with a
\* call suspended in PendingApproval the invocation yields a RunResult
\* whose finalOutput is null, otherwise the Runner returns to AwaitingModel.
CollectTurn(s) ==
  /\ Running /\ rstate[s] = "ExecutingTools"
  /\ Barrier(calls[s])
  /\ rhist' = [rhist EXCEPT ![s] = FoldTurn(@, calls[s])]
  /\ IF \E i \in 1..Len(calls[s]) : calls[s][i].status = "pending"
       THEN /\ rstate' = [rstate EXCEPT ![s] = "Interrupted"]
            /\ result' = [result EXCEPT ![s] =
                 [finalOutput |-> NULL, history |-> rhist'[s], error |-> NULL]]
            /\ UNCHANGED <<turns, outstanding>>
       ELSE NextTurn(s, outstanding[s])
  /\ UNCHANGED <<active, calls, completed, nextId, resp, executed, approvals>>
  /\ UNCHANGED <<procVars, chatVars>>

\* InterpretingResponse, a handoff request: ExecutingHandoff.
ModelHandoff(s, target) ==
  /\ Running /\ rstate[s] = "AwaitingModel"
  /\ resp' = [resp EXCEPT ![s] =
       [type |-> "handoff", text |-> NULL, target |-> target, from |-> active[s]]]
  /\ IF target \in handoffs(active[s])
       THEN /\ rhist' = [rhist EXCEPT ![s] = Append(@, HandoffEvent(active[s], target))]
            /\ active' = [active EXCEPT ![s] = target]
       ELSE /\ rhist' = [rhist EXCEPT ![s] = Append(@, InvalidHandoff(active[s], target))]
            /\ active' = active
  /\ NextTurn(s, outstanding[s] - 1)
  /\ calls' = [calls EXCEPT ![s] = <<>>]
  /\ completed' = [completed EXCEPT ![s] = <<>>]
  /\ UNCHANGED <<nextId, executed, approvals>>
  /\ UNCHANGED <<procVars, chatVars>>

\* ModelBackendError: surfaced to the caller, the run aborts.
ModelFails(s) ==
  /\ Running /\ rstate[s] = "AwaitingModel"
  /\ outstanding' = [outstanding EXCEPT ![s] = @ - 1]
  /\ rstate' = [rstate EXCEPT ![s] = "Threw"]
  /\ UNCHANGED <<active, turns, rhist, calls, completed, nextId, resp, result,
                 executed, approvals>>
  /\ UNCHANGED <<procVars, chatVars>>


(***************************************************************************)
(* runChat.                                                                *)
(***************************************************************************)
\* the loop condition, userPrompt !== "/bye"
ContinueAlways(line) == TRUE

ContinueUntilEmpty(line) == line # "/bye" /\ line # ""

Continue(line) == line # "/bye"

\* history = result.history
NewHistoryDropLast(old, res) == SubSeq(res.history, 1, Len(res.history) - 1)

NewHistory(old, res) == res.history

\* The second and later passes of `while (userPrompt !== "/bye")`, entered
\* with the history h and the prompt line: either run is called again or
\* the loop ends, the history is written to stdout, rl is closed and the
\* process exits with code 0.
LoopTest(s, h, line) ==
  IF Continue(line)
    THEN /\ StartRun(s, h)
         /\ pc' = [pc EXCEPT ![s] = "run"]
         /\ UNCHANGED <<stdout, rlOpen, exit>>
    ELSE /\ stdout' = Append(stdout, h)
         /\ rlOpen' = FALSE
         /\ exit' = "exit0"
         /\ pc' = [pc EXCEPT ![s] = "exited"]
         /\ UNCHANGED <<runs, runVars>>

\* runChat(actionPrompt) is called: history = [user(actionPrompt)],
\* userPrompt = "", and the first pass of the loop calls run.
runChat(s, actionPrompt) ==
  /\ history' = [history EXCEPT ![s] = <<user(actionPrompt)>>]
  /\ userPrompt' = [userPrompt EXCEPT ![s] = ""]
  /\ StartRun(s, <<user(actionPrompt)>>)
  /\ pc' = [pc EXCEPT ![s] = "run"]

\* JavaScript truthiness of result.finalOutput
TruthyNotNull(x) == x # NULL

Truthy(x) == x # NULL /\ x # ""

\* history.push(item)
pushFront(h, item) == <<item>> \o h

push(h, item) == Append(h, item)

\* An exception leaves runChat. In the session main awaits it enters
\* main's finally block, where mcpHttpServer.close() is called; in the
\* 'end' handler nothing awaits it and the rejection is unhandled.
ChatThrows(s) ==
  /\ pc' = [pc EXCEPT ![s] = "threw"]
  /\ IF s = "tty"
       THEN /\ thrown' = TRUE
            /\ mainPc' = "closeHttp"
            /\ closeCalls' = [closeCalls EXCEPT ![mcpHttpServer] = @ + 1]
            /\ exit' = exit
       ELSE /\ exit' = "crash"
            /\ UNCHANGED <<thrown, mainPc, closeCalls>>

\* `await run(...)` resolves: history = result.history, and with a truthy
\* finalOutput rl.question is called, which rejects on a closed interface;
\* with a falsy one the loop goes round.
RunReturns(s) ==
  /\ Running /\ pc[s] = "run"
  /\ rstate[s] \in {"Terminal", "Interrupted", "Failed"}
  /\ history' = [history EXCEPT ![s] = NewHistory(@, result[s])]
  /\ IF Truthy(result[s].finalOutput)
       THEN IF rlOpen
              THEN /\ pc' = [pc EXCEPT ![s] = "question"]
                   /\ rstate' = [rstate EXCEPT ![s] = "Idle"]
                   /\ UNCHANGED <<active, turns, outstanding, rhist, calls,
                                  completed, nextId, resp, result, executed,
                                  approvals>>
                   /\ UNCHANGED <<thrown, mainPc, closeCalls, exit, runs,
                                  stdout, rlOpen>>
              ELSE /\ ChatThrows(s)
                   /\ rstate' = [rstate EXCEPT ![s] = "Idle"]
                   /\ UNCHANGED <<active, turns, outstanding, rhist, calls,
                                  completed, nextId, resp, result, executed,
                                  approvals>>
                   /\ UNCHANGED <<runs, stdout, rlOpen>>
       ELSE /\ LoopTest(s, history'[s], userPrompt[s])
            /\ UNCHANGED <<thrown, mainPc, closeCalls>>
  /\ UNCHANGED <<isTTY, conn, connectResult, handlers, stdinInput, stdinEnded, logged,
                 userPrompt>>

\* `await run(...)` rejects.
RunThrows(s) ==
  /\ Running /\ pc[s] = "run"
  /\ rstate[s] = "Threw"
  /\ ChatThrows(s)
  /\ rstate' = [rstate EXCEPT ![s] = "Idle"]
  /\ UNCHANGED <<active, turns, outstanding, rhist, calls, completed, nextId,
                 resp, result, executed, approvals>>
  /\ UNCHANGED <<isTTY, conn, connectResult, handlers, stdinInput, stdinEnded, rlOpen,
                 stdout, logged, history, userPrompt, runs>>

\* The stdin 'data' handler: stdinInput += chunk. Of the concatenation the
\* model keeps the first non-empty chunk.
OnData(chunk) == IF handlers /\ stdinInput = "" THEN chunk ELSE stdinInput

\* The user answers runChat's rl.question: userPrompt = line, the line is
\* pushed to the history, and the loop condition is tested.
Answer(s, line) ==
  /\ Running /\ pc[s] = "question" /\ rlOpen
  /\ userPrompt' = [userPrompt EXCEPT ![s] = line]
  /\ history' = [history EXCEPT ![s] = push(@, user(line))]
  /\ stdinInput' = OnData(line)
  /\ LoopTest(s, history'[s], line)
  /\ UNCHANGED <<isTTY, mainPc, thrown, conn, connectResult, closeCalls, handlers,
                 stdinEnded, logged>>

(***************************************************************************)
(* main and the stdin handlers.                                            *)
(***************************************************************************)
\* close() of a server in state st leaves the server Closed. It tears the
\* transport of a Connected server down, which can fail; on a server that
\* is not Connected there is nothing to tear down, and it never raises.
close(st) == "Closed"

CloseMayRaiseAlways(st) == TRUE

CloseMayRaise(st) == st = "Connected"

\* main's finally block is entered: mcpHttpServer.close() is called.
EnterFinally(exc) ==
  /\ thrown' = exc
  /\ mainPc' = "closeHttp"
  /\ closeCalls' = [closeCalls EXCEPT ![mcpHttpServer] = @ + 1]

\* `await mcpHttpServer.connect()` resolves or rejects.
ConnectHttp(ok) ==
  /\ Running /\ mainPc = "connectHttp"
  /\ IF ok
       THEN /\ conn' = [conn EXCEPT ![mcpHttpServer] = "Connected",
                                    ![mcpFilesystemServer] = "Connecting"]
            /\ connectResult' = [connectResult EXCEPT ![mcpHttpServer] = "ok"]
            /\ mainPc' = "connectFs"
            /\ UNCHANGED <<thrown, closeCalls>>
       ELSE /\ conn' = [conn EXCEPT ![mcpHttpServer] = "Disconnected"]
            /\ connectResult' = [connectResult EXCEPT ![mcpHttpServer] = "failed"]
            /\ EnterFinally(TRUE)
  /\ UNCHANGED <<isTTY, handlers, stdinInput, stdinEnded, rlOpen, stdout,
                 exit, logged>>
  /\ UNCHANGED <<chatVars, runVars>>

\* `await mcpFilesystemServer.connect()` resolves or rejects. On success
\* the stdin handlers are registered; on a TTY rl.question is called, and
\* otherwise main falls through to its finally block.
ConnectFs(ok) ==
  /\ Running /\ mainPc = "connectFs"
  /\ IF ok
       THEN /\ conn' = [conn EXCEPT ![mcpFilesystemServer] = "Connected"]
            /\ connectResult' = [connectResult EXCEPT ![mcpFilesystemServer] = "ok"]
            /\ handlers' = TRUE
            /\ IF isTTY
                 THEN IF rlOpen
                        THEN /\ mainPc' = "question"
                             /\ UNCHANGED <<thrown, closeCalls>>
                        ELSE EnterFinally(TRUE)
                 ELSE EnterFinally(FALSE)
       ELSE /\ conn' = [conn EXCEPT ![mcpFilesystemServer] = "Disconnected"]
            /\ connectResult' = [connectResult EXCEPT ![mcpFilesystemServer] = "failed"]
            /\ handlers' = handlers
            /\ EnterFinally(TRUE)
  /\ UNCHANGED <<isTTY, stdinInput, stdinEnded, rlOpen, stdout, exit, logged>>
  /\ UNCHANGED <<chatVars, runVars>>

\* The user answers "What can I do for you?": an empty answer throws,
\* any other starts the chat session main awaits.
Question(actionPrompt) ==
  /\ Running /\ mainPc = "question" /\ rlOpen
  /\ stdinInput' = OnData(actionPrompt)
  /\ IF actionPrompt = ""
       THEN /\ EnterFinally(TRUE)
            /\ UNCHANGED <<chatVars, runVars>>
       ELSE /\ runChat("tty", actionPrompt)
            /\ mainPc' = "chat"
            /\ UNCHANGED <<thrown, closeCalls>>
  /\ UNCHANGED <<isTTY, conn, connectResult, handlers, stdinEnded, rlOpen, stdout, exit,
                 logged>>

\* `await mcpHttpServer.close()` resolves, and mcpFilesystemServer.close()
\* is called; or it rejects, and main rejects with that exception.
CloseHttp(ok) ==
  /\ Running /\ mainPc = "closeHttp"
  /\ ok \/ CloseMayRaise(conn[mcpHttpServer])
  /\ IF ok
       THEN /\ conn' = [conn EXCEPT ![mcpHttpServer] = close(@)]
            /\ closeCalls' = [closeCalls EXCEPT ![mcpFilesystemServer] = @ + 1]
            /\ mainPc' = "closeFs"
            /\ UNCHANGED <<thrown, logged>>
       ELSE /\ mainPc' = "rejected"
            /\ thrown' = TRUE
            /\ logged' = TRUE
            /\ UNCHANGED <<conn, closeCalls>>
  /\ UNCHANGED <<isTTY, connectResult, handlers, stdinInput, stdinEnded, rlOpen,
                 stdout, exit>>
  /\ UNCHANGED <<chatVars, runVars>>

\* `await mcpFilesystemServer.close()` resolves or rejects: main is
\* settled, and main().catch logs the exception main rejects with.
CloseFs(ok) ==
  /\ Running /\ mainPc = "closeFs"
  /\ ok \/ CloseMayRaise(conn[mcpFilesystemServer])
  /\ IF ok
       THEN /\ conn' = [conn EXCEPT ![mcpFilesystemServer] = close(@)]
            /\ mainPc' = IF thrown THEN "rejected" ELSE "resolved"
            /\ logged' = thrown
            /\ thrown' = thrown
       ELSE /\ mainPc' = "rejected"
            /\ thrown' = TRUE
            /\ logged' = TRUE
            /\ conn' = conn
  /\ UNCHANGED <<isTTY, connectResult, closeCalls, handlers, stdinInput,
                 stdinEnded, rlOpen, stdout, exit>>
  /\ UNCHANGED <<chatVars, runVars>>

\* A chunk of piped input arrives: the 'data' handler, when registered.
StdinChunk(chunk) ==
  /\ Running /\ ~isTTY /\ ~stdinEnded /\ handlers
  /\ chunk # "" /\ stdinInput = ""
  /\ stdinInput' = OnData(chunk)
  /\ UNCHANGED <<isTTY, mainPc, thrown, conn, connectResult, closeCalls, handlers,
                 stdinEnded, rlOpen, stdout, exit, logged>>
  /\ UNCHANGED <<chatVars, runVars>>

\* stdin ends: readline closes rl, and the 'end' handler, when
\* registered, calls runChat(stdinInput).
StdinEnd ==
  /\ Running /\ ~stdinEnded
  /\ stdinEnded' = TRUE
  /\ rlOpen' = FALSE
  /\ IF handlers
       THEN runChat("end", stdinInput)
       ELSE UNCHANGED <<chatVars, runVars>>
  /\ UNCHANGED <<isTTY, mainPc, thrown, conn, connectResult, closeCalls, handlers,
                 stdinInput, stdout, exit, logged>>

\* Nothing is left that could run: stdin has ended or rl was closed, main
\* is settled or waits for an answer that cannot come, and no session has
\* a run or a continuation pending. The process ends with the exit code
\* process.exitCode, which the program never sets: 0.
ProcessEnds ==
  /\ Running /\ ~rlOpen
  /\ mainPc \in {"resolved", "rejected", "question", "chat"}
  /\ \A s \in Sessions : pc[s] \in {"none", "question", "threw"}
  /\ exit' = "ended"
  /\ UNCHANGED <<isTTY, mainPc, thrown, conn, connectResult, closeCalls, handlers,
                 stdinInput, stdinEnded, rlOpen, stdout, logged>>
  /\ UNCHANGED <<chatVars, runVars>>

\* The exit code of the process once it is over: 0 from process.exit(0)
\* and from the end of all work, 1 from an unhandled rejection.
ExitCode == IF exit = "crash" THEN 1 ELSE 0

Next ==
  \/ \E ok \in BOOLEAN : ConnectHttp(ok)
  \/ \E ok \in BOOLEAN : ConnectFs(ok)
  \/ \E actionPrompt \in Prompts : Question(actionPrompt)
  \/ \E ok \in BOOLEAN : CloseHttp(ok)
  \/ \E ok \in BOOLEAN : CloseFs(ok)
  \/ \E chunk \in StdinData : StdinChunk(chunk)
  \/ StdinEnd
  \/ ProcessEnds
  \/ \E s \in Sessions : RunReturns(s)
  \/ \E s \in Sessions : RunThrows(s)
  \/ \E s \in Sessions, line \in UserLines : Answer(s, line)
  \/ \E s \in Sessions, text \in Texts : ModelMessage(s, text)
  \/ \E s \in Sessions, reqs \in ReqSeqs : ModelToolCalls(s, reqs)
  \/ \E s \in Sessions : \E i \in DOMAIN calls[s] : ToolExec(s, i)
  \/ \E s \in Sessions : CollectTurn(s)
  \/ \E s \in Sessions, target \in Targets : ModelHandoff(s, target)
  \/ \E s \in Sessions : ModelFails(s)

Spec == Init /\ [][Next]_vars


(***************************************************************************)
(* The claims.                                                             *)
(***************************************************************************)
\* A run invocation is in progress: run(...) was called and has not settled.
InProgress(s) == rstate[s] \in {"AwaitingModel", "ExecutingTools"}

\* C1: every run(...) made by runChat starts after connect() of both
\* servers has completed and is over before close() is called on either
\* server: while a run is in progress both servers are Connected and no
\* close() call has been made.
C1_RunsInsideConnections ==
  \A s \in Sessions :
    InProgress(s) =>
      \A srv \in Servers : conn[srv] = "Connected" /\ closeCalls[srv] = 0

\* The process has left its last exit path: it has exited, or main has
\* settled.
TornDown == exit # "running" \/ mainPc \in {"resolved", "rejected"}

\* C2: on every exit path of the process (graceful session end, an
\* exception from a connect(), from the run loop, from the other server's
\* close()), each of the two servers has been closed exactly once.
C2_ClosedExactlyOnce ==
  TornDown => \A srv \in Servers : closeCalls[srv] = 1

\* main has entered its finally block or has settled.
Abandoned == mainPc \in {"closeHttp", "closeFs", "resolved", "rejected"}

\* C3: when connect() of a server fails, the process is not aborted: the
\* chat session is still started and the other server is still connected,
\* so main does not turn to its teardown after a failed connect() with no
\* chat session started or with the other server never connected.
C3_ConnectFailureIsLocal ==
  \A srv \in Servers :
    (connectResult[srv] = "failed" /\ Abandoned) =>
      /\ \E s \in Sessions : pc[s] # "none"
      /\ \A o \in Servers \ {srv} : connectResult[o] = "ok"

\* C4: get_weather with city "San Francisco" (the call for which
\* needsApproval returns true) is never executed unless an approval
\* decision for that call was recorded in the run.
C4_NoExecutionWithoutApproval ==
  \A s \in Sessions : \A e \in executed[s] :
    (e.name = "get_weather" /\ e.city = "San Francisco") => e.id \in approvals[s]

\* C4's case: the Weather bot's model requested get_weather for San
\* Francisco and the Invoker has dispatched the call.
C4_Witness ==
  \E s \in Sessions : \E i \in DOMAIN calls[s] :
    /\ active[s] = weatherAgent
    /\ calls[s][i].name = "get_weather" /\ calls[s][i].city = "San Francisco"
    /\ calls[s][i].status # "issued"

\* C5: a dispatched get_weather call of an agent that has the tool is, for
\* San Francisco, suspended in PendingApproval, not executed, and the run
\* has no finalOutput; for any other city it is executed at once and its
\* result is the tool's output.
C5_ApprovalGate ==
  \A s \in Sessions : \A i \in DOMAIN calls[s] :
    LET c == calls[s][i]
        e == [id |-> c.id, name |-> c.name, city |-> c.city]
    IN (c.name = "get_weather" /\ c.name \in tools(active[s]) /\ c.status # "issued") =>
         IF c.city = "San Francisco"
           THEN /\ c.status = "pending"
                /\ e \notin executed[s]
                /\ result[s].finalOutput = NULL
                /\ rstate[s] \in {"ExecutingTools", "Interrupted", "Idle"}
           ELSE /\ c.status = "done" /\ c.kind = "output"
                /\ c.output = <<"The weather in ", c.city, " is sunny.">>
                /\ e \in executed[s]

\* C5's case: in one turn the San Francisco call is pending, the Paris
\* call has executed, and the invocation has yielded a null finalOutput.
C5_Witness ==
  \E s \in Sessions :
    /\ rstate[s] = "Interrupted"
    /\ \E i \in DOMAIN calls[s] :
         calls[s][i].city = "San Francisco" /\ calls[s][i].status = "pending"
    /\ \E i \in DOMAIN calls[s] :
         calls[s][i].city = "Paris" /\ calls[s][i].status = "done"
         /\ calls[s][i].kind = "output"

\* The positions of a history that hold a ToolCall, and those that hold
\* the ToolResult of a tool call (an InvalidHandoff result has no callId).
CallsAt(h) == {i \in DOMAIN h : h[i].type = "ToolCall"}
ResultsAt(h) == {i \in DOMAIN h : h[i].type = "ToolResult" /\ h[i].id # 0}

Paired(h) ==
  /\ \A i \in CallsAt(h) :
       /\ Cardinality({j \in ResultsAt(h) : h[j].id = h[i].id}) = 1
       /\ \A j \in ResultsAt(h) : h[j].id = h[i].id => j > i
  /\ Cardinality(CallsAt(h)) = Cardinality(ResultsAt(h))
  \* callIds are given in issue order: both the calls and their results
  \* stand in that order
  /\ \A i, j \in CallsAt(h) : i < j => h[i].id < h[j].id
  /\ \A i, j \in ResultsAt(h) : i < j => h[i].id < h[j].id

\* C6: whenever a model call is issued, every ToolCall of the history has
\* exactly one ToolResult with its callId, after it, the two counts are
\* equal, and calls and results stand in the order the model issued the
\* calls.
C6_CallsPaired ==
  \A s \in Sessions : rstate[s] = "AwaitingModel" => Paired(rhist[s])

\* C6's case: a model call is issued on a history that holds the pairs
\* of a turn whose two calls completed in the reverse of the issue order.
C6_Witness ==
  \E s \in Sessions :
    /\ rstate[s] = "AwaitingModel"
    /\ Cardinality(CallsAt(rhist[s])) >= 2
    /\ Len(completed[s]) = 2 /\ completed[s][1] > completed[s][2]

\* The handoff targets the claim lists for each agent.
ListedTargets(agent) ==
  IF agent = "Triage Agent"
    THEN {"FS MCP Assistant", "History Tutor", "Math Tutor",
          "User Age Assistant", "Weather bot"}
    ELSE {}

\* In this step the Runner acts on a handoff request of session s.
HandoffStep(s) ==
  /\ rstate[s] = "AwaitingModel"
  /\ resp'[s].type = "handoff"
  /\ rhist'[s] # rhist[s]

\* C7: a handoff request naming a target that is not among the active
\* agent's listed targets leaves the active agent unchanged and appends an
\* InvalidHandoff error result to the history; the run is not aborted by
\* an exception.
C7_InvalidHandoff ==
  [][\A s \in Sessions :
       (HandoffStep(s) /\ resp'[s].target \notin ListedTargets(active[s])) =>
         /\ active'[s] = active[s]
         /\ rhist'[s] = Append(rhist[s],
              [type |-> "ToolResult", name |-> "InvalidHandoff",
               arg |-> <<resp'[s].target>>, id |-> 0])
         /\ rstate'[s] # "Threw"]_vars

\* C7's case: a specialist's model named a target and the request was
\* answered with InvalidHandoff.
C7_Witness ==
  \E s \in Sessions :
    /\ active[s] = weatherAgent
    /\ resp[s].type = "handoff" /\ resp[s].from = weatherAgent
    /\ rhist[s] # <<>>
    /\ rhist[s][Len(rhist[s])].name = "InvalidHandoff"

\* C8: one run invocation issues at most MaxTurns model calls, and a run
\* that used the budget up without a plain-text message has failed with
\* MaxTurnsExceeded and a non-empty partial history.
C8_TurnBudget ==
  \A s \in Sessions :
    /\ turns[s] <= MaxTurns
    /\ rstate[s] = "Failed" =>
         /\ turns[s] = MaxTurns
         /\ resp[s].type \in {"tool_calls", "handoff"}
         /\ result[s].error = "MaxTurnsExceeded"
         /\ result[s].finalOutput = NULL
         /\ result[s].history # <<>>
         /\ result[s].history = rhist[s]

\* C8's case: a run whose every response was a handoff or a tool call has
\* ended with MaxTurnsExceeded.
C8_Witness ==
  \E s \in Sessions :
    /\ rstate[s] = "Failed"
    /\ result[s].error = "MaxTurnsExceeded"
    /\ Len(result[s].history) > 1

\* C9: a model call is issued only when every tool call of the turn has
\* its result, and at most one model call is outstanding.
C9_Barrier ==
  \A s \in Sessions :
    /\ outstanding[s] \in {0, 1}
    /\ outstanding[s] = 1 <=> rstate[s] = "AwaitingModel"
    /\ rstate[s] = "AwaitingModel" =>
         \A i \in DOMAIN calls[s] : calls[s][i].status = "done"

\* C9's case: the two calls of a turn completed in the reverse of the
\* order they were issued in, and the next model call is outstanding.
C9_Witness ==
  \E s \in Sessions :
    /\ rstate[s] = "AwaitingModel" /\ outstanding[s] = 1
    /\ Len(calls[s]) = 2
    /\ completed[s] = <<calls[s][2].id, calls[s][1].id>>

\* In this step session s calls run(...).
RunStarts(s) == runs'[s] = runs[s] + 1

NoInitialPrompt ==
  \/ /\ isTTY /\ Abandoned /\ pc["tty"] = "none"
     /\ \A srv \in Servers : connectResult[srv] = "ok"
  \/ ~isTTY /\ stdinEnded /\ stdinInput = ""

\* The startup of the process has failed.
StartupFailed ==
  NoInitialPrompt \/ \E srv \in Servers : connectResult[srv] = "failed"

\* C11: the process exits with code 0 when the session ends gracefully;
\* when no initial prompt is supplied or a connect() fails at startup, no
\* run is started and the process, once over, has a non-zero exit code.
C11_StartupFailureExitCode ==
  /\ (exit = "exit0") => ExitCode = 0
  /\ StartupFailed =>
       /\ \A s \in Sessions : runs[s] = 0
       /\ (exit # "running") => ExitCode # 0

\* The sequence p is a prefix of the sequence q.
IsPrefix(p, q) == Len(p) <= Len(q) /\ SubSeq(q, 1, Len(p)) = p

\* C12: the history of a session is append-only: whenever runChat
\* replaces it with result.history or pushes a user message, the previous
\* history is a prefix of the new one; no item is removed, rewritten or
\* reordered.
C12_HistoryAppendOnly ==
  [][\A s \in Sessions : IsPrefix(history[s], history'[s])]_vars

\* C12's case: the history was replaced by the history of a first run,
\* which had grown, a user line was pushed, and a second run is on it.
C12_Witness ==
  \E s \in Sessions :
    /\ pc[s] = "run" /\ runs[s] = 2
    /\ Len(history[s]) >= 3
    /\ history[s][1].type = "UserMessage"
    /\ history[s][2].type # "UserMessage"
    /\ history[s][Len(history[s])] = user("more")

\* The connection states of a server.
ConnStates == {"Disconnected", "Connecting", "Connected", "Closed"}

RunResolves(s) ==
  /\ pc[s] = "run"
  /\ rstate[s] \in {"Terminal", "Interrupted", "Failed"}
  /\ rstate'[s] # rstate[s]

C15_OneSession ==
  /\ Cardinality({s \in Sessions : pc[s] # "none"}) <= 1
  /\ Cardinality({s \in Sessions : InProgress(s)}) <= 1

\* C16: every run(...) starts with Triage Agent as the active agent,
\* whichever agent was active when the run before ended: the first model
\* call of every run is Triage Agent's, and a handoff made in one run does
\* not carry over into the next.
C16_RunStartsAtTriage ==
  [][\A s \in Sessions :
       /\ RunStarts(s) => active'[s] = triageAgent
       /\ (rstate[s] = "AwaitingModel" /\ turns[s] = 1 /\ resp'[s] # resp[s]) =>
            resp'[s].from = triageAgent]_vars

\* C16's case: the first run handed off to the Weather bot and ended with
\* its answer, and the second run has started, with Triage Agent active.
C16_Witness ==
  \E s \in Sessions :
    /\ runs[s] = 2 /\ rstate[s] = "AwaitingModel" /\ turns[s] = 1
    /\ active[s] = triageAgent
    /\ Len(history[s]) >= 4
    /\ history[s][2] = HandoffEvent(triageAgent, weatherAgent)
    /\ history[s][3].type = "AssistantMessage"
    /\ history[s][3].name = weatherAgent

\* The positions of the handoffs recorded by the current run of session
\* s: those in the Runner's history after the input of the run.
HandoffsOfRun(s) ==
  {i \in (Len(history[s]) + 1)..Len(rhist[s]) : rhist[s][i].type = "HandoffEvent"}

\* Within a run at most one handoff has succeeded, and Triage Agent made it.
OneHandoff ==
  \A s \in Sessions :
    /\ Cardinality(HandoffsOfRun(s)) <= 1
    /\ \A i \in HandoffsOfRun(s) :
         rhist[s][i].name = triageAgent /\ rhist[s][i].arg # triageAgent

\* C17: the handoff relation is acyclic and of depth one: only Triage
\* Agent lists targets, no agent lists itself, and no specialist can hand
\* off. So in a run at most one handoff succeeds, Triage Agent is its
\* source, and once a specialist is active the active agent stays that
\* specialist until the run is over.
C17_HandoffDepthOne ==
  [][/\ \A a \in Agents :
          /\ a \notin handoffs(a)
          /\ a # triageAgent => handoffs(a) = {}
     /\ handoffs(triageAgent) = Agents \ {triageAgent}
     /\ OneHandoff /\ OneHandoff'
     /\ \A s \in Sessions :
          ~RunStarts(s) =>
            /\ active'[s] # active[s] =>
                 active[s] = triageAgent /\ active'[s] \in handoffs(triageAgent)
            /\ active[s] # triageAgent => active'[s] = active[s]]_vars

\* C17's case: Triage Agent handed off to the Weather bot, and the Weather
\* bot's request to hand back to Triage Agent was refused.
C17_Witness ==
  \E s \in Sessions : \E i \in 1..(Len(rhist[s]) - 1) :
    /\ active[s] = weatherAgent
    /\ i \in HandoffsOfRun(s)
    /\ rhist[s][i].name = triageAgent /\ rhist[s][i].arg = weatherAgent
    /\ rhist[s][i + 1].type = "ToolResult"
    /\ rhist[s][i + 1].name = "InvalidHandoff"
    /\ rhist[s][i + 1].arg = <<triageAgent>>

\* The history h ends with the user message "/bye".
EndsWithBye(h) ==
  /\ h # <<>>
  /\ h[Len(h)].type = "UserMessage"
  /\ h[Len(h)].arg = "/bye"

\* A history was written to standard output only once, it ends with the
\* user message "/bye", and the process has exited with code 0.
TranscriptEndsWithBye ==
  stdout # <<>> =>
    /\ Len(stdout) = 1 /\ EndsWithBye(stdout[1])
    /\ exit = "exit0" /\ ExitCode = 0
    /\ \E s \in Sessions : pc[s] = "exited" /\ stdout[1] = history[s]

\* C18: the chat loop is left only directly after a user line equal to
\* "/bye" was read and appended to the history; so whenever the history is
\* written to standard output its last item is the user message "/bye",
\* and the process then exits with code 0.
C18_ExitOnlyAfterBye ==
  [][/\ TranscriptEndsWithBye /\ TranscriptEndsWithBye'
     /\ \A s \in Sessions :
          (pc[s] # "exited" /\ pc'[s] = "exited") =>
            /\ pc[s] = "question"
            /\ userPrompt'[s] = "/bye"
            /\ history'[s] = Append(history[s], user("/bye"))
            /\ stdout' = <<history'[s]>>
            /\ exit = "running" /\ exit' = "exit0"]_vars

\* C18's case: a session of two runs, the user having typed "more" and
\* then "/bye", has written its history and the process has exited.
C18_Witness ==
  \E s \in Sessions :
    /\ pc[s] = "exited" /\ runs[s] = 2 /\ exit = "exit0"
    /\ stdout = <<history[s]>>
    /\ EndsWithBye(history[s])
    /\ \E i \in 2..(Len(history[s]) - 2) :
         history[s][i].type = "UserMessage" /\ history[s][i].arg = "more"

====
